---- MODULE Spec2Model ----
(***************************************************************************)
(* Model of main_app/models.py (Models_Inheritance_and_Customization):     *)
(* the masked credit-card field, Room.save, and the reservation models     *)
(* (availability check, save, extend_reservation, calculate_total_cost).   *)
(*                                                                         *)
(* Five specifications share the variables; each one drives one part of    *)
(* the program and leaves the other parts at their initial value:          *)
(*   Spec      reservations, one caller at a time                          *)
(*   CardSpec  CreditCard.card_number (MaskedCreditCardField)              *)
(*   RoomSpec  Room.save                                                   *)
(*   CostSpec  reservation_period / calculate_total_cost                   *)
(*   RaceSpec  two RegularReservation.save calls, clean and persist        *)
(*             interleaved                                                 *)
(***************************************************************************)
EXTENDS Integers, Sequences, FiniteSets

VARIABLES
    card_value,   \* CreditCard.card_number attribute of the in-memory object
    card_db,      \* card_number column of the stored CreditCard row
    card_last,    \* last operation on the card and its outcome
    room_obj,     \* in-memory Room object
    room_store,   \* table of Room rows
    room_last,    \* last Room operation and its outcome
    obj,          \* in-memory reservation object the caller works with
    res_store,    \* RegularReservation and SpecialReservation tables
    res_last,     \* last reservation operation, its outcome, state before it
    cost_price,   \* room.price_per_night of the reservation's room, in cents
    cost_last,    \* results of reservation_period / calculate_total_cost
    pc,           \* RaceSpec: position of each concurrent save call
    robj,         \* RaceSpec: the reservation object of each save call
    interleaved   \* RaceSpec: some clean ran while another call was
                  \* between its clean and its persist

vars == <<card_value, card_db, card_last, room_obj, room_store, room_last,
          obj, res_store, res_last, cost_price, cost_last,
          pc, robj, interleaved>>

cardVars == <<card_value, card_db, card_last>>
roomVars == <<room_obj, room_store, room_last>>
resVars  == <<obj, res_store, res_last>>
costVars == <<cost_price, cost_last>>
raceVars == <<pc, robj, interleaved>>

-----------------------------------------------------------------------------
(* Bounds *)

MaxTail == 2        \* free characters at the end of a card input
MaxCapacity == 2    \* Room.capacity inputs are 0..MaxCapacity
NumDates == 4       \* calendar dates FirstDate .. FirstDate + NumDates - 1
FirstDate == 30     \* ordinal of the first date in the year: January 30th
MaxRecords == 2     \* rows held by the reservation tables together
MaxDays == 1        \* extend_reservation(days) with days in 0..MaxDays

-----------------------------------------------------------------------------
(* Strings are sequences of characters.  "1/2" stands for the single       *)
(* character U+00BD (vulgar fraction one half): numeric, but not a digit.  *)

DigitChars   == {"1", "7"}
NumericChars == DigitChars \cup {"1/2"}      \* str.isnumeric() per character
InputChars   == NumericChars \cup {"a"}

CardLen == 16

RECURSIVE Rep(_, _)
Rep(c, n) == IF n = 0 THEN <<>> ELSE <<c>> \o Rep(c, n - 1)

Tails == UNION {[1..n -> InputChars] : n \in 0..MaxTail}
PadLens == {0, CardLen - 3, CardLen - 2, CardLen - 1}

Str(chars) == [type |-> "str", chars |-> chars]
NoneValue  == [type |-> "NoneType", chars |-> <<>>]
IntValue   == [type |-> "int", chars |-> Rep("1", CardLen)]
Unset      == [type |-> "unset", chars |-> <<>>]

CardInputs ==
    {Str(Rep(c, n) \o t) : c \in InputChars, n \in PadLens, t \in Tails}
        \cup {NoneValue, IntValue}

-----------------------------------------------------------------------------
(* MaskedCreditCardField *)

isinstance_str(value) == value.type = "str"

\* str.isnumeric(): at least one character and every character numeric
isnumeric(chars) == Len(chars) > 0 /\ \A i \in 1..Len(chars) : chars[i] \in NumericChars

\* value[-4:]
Last4(chars) ==
    IF Len(chars) <= 4 THEN chars ELSE SubSeq(chars, Len(chars) - 3, Len(chars))

MaskPrefix == <<"*","*","*","*","-","*","*","*","*","-","*","*","*","*","-">>

to_python(value) ==
    IF ~isinstance_str(value)
    THEN [error |-> "The card number must be a string", value |-> Unset]
    ELSE IF ~isnumeric(value.chars)
    THEN [error |-> "The card number must contain only digits", value |-> Unset]
    ELSE IF Len(value.chars) # CardLen
    THEN [error |-> "The card number must be exactly 16 characters long", value |-> Unset]
    ELSE [error |-> "", value |-> Str(MaskPrefix \o Last4(value.chars))]

CardIdle == [op |-> "init", arg |-> Unset, error |-> "", value |-> Unset, db_before |-> Unset]

CardInit ==
    /\ card_value = Unset
    /\ card_db = Unset
    /\ card_last = CardIdle

\* credit_card.card_number = v
CardAssign(v) ==
    /\ card_value' = v
    /\ card_last' = [CardIdle EXCEPT !.op = "assign"]
    /\ UNCHANGED card_db

\* CreditCard.save(): CharField.get_prep_value calls to_python on the
\* attribute; the column gets the returned value, the attribute keeps its own.
CardSave ==
    /\ card_value # Unset
    /\ LET r == to_python(card_value) IN
         /\ card_last' = [op |-> "save", arg |-> card_value, error |-> r.error,
                          value |-> r.value, db_before |-> card_db]
         /\ card_db' = IF r.error = "" THEN r.value ELSE card_db
    /\ UNCHANGED card_value

\* CreditCard.objects.get(): the attribute is the column value as stored
CardLoad ==
    /\ card_db # Unset
    /\ card_value' = card_db
    /\ card_last' = [CardIdle EXCEPT !.op = "load"]
    /\ UNCHANGED card_db

-----------------------------------------------------------------------------
(* Room *)

RoomNumbers == {"101", "102"}

NoRoom == [pk |-> 0, number |-> "", capacity |-> 0, total_guests |-> 0]

RoomIdle == [op |-> "init", error |-> "", message |-> <<>>,
             pre_store |-> {}, pre_obj |-> NoRoom]

MaxOf(S) == IF S = {} THEN 0 ELSE CHOOSE m \in S : \A x \in S : x <= m

\* Mutant of Room_clean: rejects a full room as well
Room_clean_full(o) ==
    IF o.total_guests >= o.capacity
    THEN "Total guests are more than the capacity of the room"
    ELSE ""

Room_clean(o) ==
    IF o.total_guests > o.capacity
    THEN "Total guests are more than the capacity of the room"
    ELSE ""

\* models.Model.save for a Room: `number` is unique, so a second row with the
\* same number is refused by the table (IntegrityError); a new object gets the
\* next primary key, a loaded one replaces its row.
RoomModelSave(o, store) ==
    IF \E r \in store : r.number = o.number /\ r.pk # o.pk
    THEN [error |-> "IntegrityError", obj |-> o, store |-> store]
    ELSE LET pk  == IF o.pk = 0 THEN MaxOf({r.pk : r \in store}) + 1 ELSE o.pk
             row == [o EXCEPT !.pk = pk]
         IN [error |-> "", obj |-> row,
             store |-> {r \in store : r.pk # pk} \cup {row}]

Room_save(o, store) ==
    LET e == Room_clean(o) IN
    IF e # ""
    THEN [error |-> e, message |-> <<>>, obj |-> o, store |-> store]
    ELSE LET w == RoomModelSave(o, store) IN
         IF w.error # ""
         THEN [error |-> w.error, message |-> <<>>, obj |-> o, store |-> store]
         ELSE [error |-> "", obj |-> w.obj, store |-> w.store,
               message |-> <<"Room ", o.number, " created successfully">>]

RoomInit ==
    /\ room_obj = NoRoom
    /\ room_store = {}
    /\ room_last = RoomIdle

\* Room(number=..., capacity=..., total_guests=...)
RoomNew(n, c, g) ==
    /\ room_obj' = [pk |-> 0, number |-> n, capacity |-> c, total_guests |-> g]
    /\ room_last' = [RoomIdle EXCEPT !.op = "new"]
    /\ UNCHANGED room_store

\* Room.objects.get(pk=...), then the caller assigns capacity and total_guests
RoomLoad(r, c, g) ==
    /\ r \in room_store
    /\ room_obj' = [r EXCEPT !.capacity = c, !.total_guests = g]
    /\ room_last' = [RoomIdle EXCEPT !.op = "load"]
    /\ UNCHANGED room_store

RoomSave ==
    /\ room_obj # NoRoom
    /\ LET r == Room_save(room_obj, room_store) IN
         /\ room_last' = [op |-> "save", error |-> r.error, message |-> r.message,
                          pre_store |-> room_store, pre_obj |-> room_obj]
         /\ room_obj' = r.obj
         /\ room_store' = r.store

-----------------------------------------------------------------------------
(* Reservations.  Dates are ordinals of the days of one non-leap year, so   *)
(* date comparison and date + timedelta(days) are integer operations.      *)

Classes == {"RegularReservation", "SpecialReservation"}
RoomIds == {1, 2}
Dates   == FirstDate..(FirstDate + NumDates - 1)

NoRes == [kind |-> "none", pk |-> 0, room |-> 0, start |-> 0, end |-> 0]

ResIdle == [op |-> "init", error |-> "", days |-> 0,
            pre_store |-> {}, pre_obj |-> NoRes]

DateOrderError   == "Start date cannot be after or in the same end date"
UnavailableError == "Room cannot be reserved"
ExtendError      == "Error during extending reservation"
ValidationErrors == {DateOrderError, UnavailableError, ExtendError}

\* cls.objects: the rows of the table of model class cls
Objects(cls, store) == {r \in store : r.kind = cls}

\* .filter(room=room, end_date__gte=gte, start_date__lte=lte)
Filter(rows, room, gte, lte) ==
    {r \in rows : r.room = room /\ r.end >= gte /\ r.start <= lte}

\* Mutant of is_available: the range ends are exclusive (__gt, __lt)
is_available_exclusive(o, store) ==
    {r \in Objects(o.kind, store) :
        r.room = o.room /\ r.end > o.start /\ r.start < o.end} = {}

\* Mutant of is_available: the query leaves out the reservation's own row
is_available_exclude_self(o, store) ==
    {r \in Filter(Objects(o.kind, store), o.room, o.start, o.end) :
        r.pk # o.pk} = {}

\* property is_available: the query runs on self.__class__.objects
is_available(o, store) ==
    Filter(Objects(o.kind, store), o.room, o.start, o.end) = {}

\* Mutant of clean: the dates are checked, the availability is not
clean_dates_only(o, store) ==
    IF o.start >= o.end THEN DateOrderError ELSE ""

clean(o, store) ==
    IF o.start >= o.end THEN DateOrderError
    ELSE IF ~is_available(o, store) THEN UnavailableError
    ELSE ""

\* models.Model.save: an object without primary key is inserted under the
\* next key of its table, an object with one replaces its row
ModelSave(o, store) ==
    LET pk  == IF o.pk = 0
               THEN MaxOf({r.pk : r \in Objects(o.kind, store)}) + 1
               ELSE o.pk
        row == [o EXCEPT !.pk = pk]
    IN [error |-> "", obj |-> row,
        store |-> {r \in store : ~(r.kind = o.kind /\ r.pk = pk)} \cup {row}]

RegularReservation_save(o, store) ==
    LET e == clean(o, store) IN
    IF e # "" THEN [error |-> e, obj |-> o, store |-> store]
    ELSE ModelSave(o, store)

\* Mutant of SpecialReservation_save: calls super().save() after clean
SpecialReservation_save_persisting(o, store) ==
    RegularReservation_save(o, store)

\* SpecialReservation.save: clean, then the return; no super().save()
SpecialReservation_save(o, store) ==
    [error |-> clean(o, store), obj |-> o, store |-> store]

\* Mutant of ExtendManagerClass: the query runs on the model class
ExtendManagerClassOfSelf == "SpecialReservation"

\* The object whose `objects` extend_reservation reads:
\* SpecialReservation.__class__ is the metaclass of the model classes
ExtendManagerClass == "ModelBase"

\* Model classes carry the manager `objects`; their metaclass does not
HasObjects(cls) == cls \in Classes

\* extend_reservation: the attribute lookup, the query, the raise, then
\* end_date += timedelta(days) and self.save()
extend_reservation(o, days, store) ==
    IF ~HasObjects(ExtendManagerClass)
    THEN [error |-> "AttributeError", obj |-> o, store |-> store]
    ELSE LET reservations ==
                 Filter(Objects(ExtendManagerClass, store),
                        o.room, o.start, o.end + days)
         IN IF reservations = {}
            THEN [error |-> ExtendError, obj |-> o, store |-> store]
            ELSE LET o2 == [o EXCEPT !.end = o.end + days]
                     s  == SpecialReservation_save(o2, store)
                 IN [error |-> s.error, obj |-> s.obj, store |-> s.store]

ResInit ==
    /\ obj = NoRes
    /\ res_store = {}
    /\ res_last = ResIdle

\* The date pairs the caller uses: every range with start < end, every
\* one-day pair start = end, and one pair with start after end
DatePairs ==
    {p \in Dates \X Dates : p[1] <= p[2]} \cup {<<FirstDate + 1, FirstDate>>}

\* The reservations the caller constructs: of either class on room 1 with
\* these date pairs, and a regular one on room 2 for the first two dates
ResInputs ==
    {[kind |-> k, pk |-> 0, room |-> 1, start |-> p[1], end |-> p[2]] :
        k \in Classes, p \in DatePairs}
        \cup {[kind |-> "RegularReservation", pk |-> 0, room |-> 2,
               start |-> FirstDate, end |-> FirstDate + 1]}

\* RegularReservation(room=, start_date=, end_date=) or SpecialReservation(...)
ResNew(o) ==
    /\ obj' = o
    /\ res_last' = ResIdle
    /\ UNCHANGED res_store

\* cls.objects.get(pk=...), then the caller assigns start_date and end_date
\* (on room 2 the dates it assigns are the stored ones)
ResLoad(row, p) ==
    /\ row \in res_store
    /\ row.room = 1 \/ p = <<row.start, row.end>>
    /\ obj' = [row EXCEPT !.start = p[1], !.end = p[2]]
    /\ res_last' = ResIdle
    /\ UNCHANGED res_store

CanInsert == obj.pk = 0 => Cardinality(res_store) < MaxRecords

RegularSave ==
    /\ obj.kind = "RegularReservation"
    /\ CanInsert
    /\ LET r == RegularReservation_save(obj, res_store) IN
         /\ res_last' = [op |-> "RegularReservation.save", error |-> r.error,
                         days |-> 0, pre_store |-> res_store, pre_obj |-> obj]
         /\ obj' = r.obj
         /\ res_store' = r.store

SpecialSave ==
    /\ obj.kind = "SpecialReservation"
    /\ CanInsert
    /\ LET r == SpecialReservation_save(obj, res_store) IN
         /\ res_last' = [op |-> "SpecialReservation.save", error |-> r.error,
                         days |-> 0, pre_store |-> res_store, pre_obj |-> obj]
         /\ obj' = r.obj
         /\ res_store' = r.store

\* called on a loaded special reservation
ExtendReservation(days) ==
    /\ obj.kind = "SpecialReservation"
    /\ obj.pk # 0
    /\ LET r == extend_reservation(obj, days, res_store) IN
         /\ res_last' = [op |-> "extend_reservation", error |-> r.error,
                         days |-> days, pre_store |-> res_store, pre_obj |-> obj]
         /\ obj' = r.obj
         /\ res_store' = r.store

\* The explicit persist of a validated special reservation by its caller,
\* through the record store's insert
ExternalPersist ==
    /\ obj.kind = "SpecialReservation"
    /\ res_last.op = "SpecialReservation.save"
    /\ res_last.error = ""
    /\ CanInsert
    /\ LET r == ModelSave(obj, res_store) IN
         /\ obj' = r.obj
         /\ res_store' = r.store
    /\ res_last' = ResIdle

-----------------------------------------------------------------------------
(* reservation_period and calculate_total_cost.  Prices are in cents, the  *)
(* returned cost in tenths.  The prices are even numbers of cents, so no    *)
(* product lies halfway between two tenths and round(x, 1) is the nearest   *)
(* tenth whatever the float representation of the product.                 *)

Prices == {10000, 12002, 4996}

MonthLengths == <<31, 28, 31, 30, 31, 30, 31, 31, 30, 31, 30, 31>>

RECURSIVE DayIn(_, _)
DayIn(ordinal, month) ==
    IF ordinal <= MonthLengths[month] THEN ordinal
    ELSE DayIn(ordinal - MonthLengths[month], month + 1)

\* date.day: the day of the month
day(d) == DayIn(d, 1)

\* round(x, 1) of x = cents / 100, in tenths
RoundTenths(cents) == (cents + 5) \div 10

\* (self.end_date - self.start_date).days
reservation_period(o) == o.end - o.start

calculate_total_cost(o, price) ==
    RoundTenths((day(o.end) - day(o.start)) * price)

CostIdle == [op |-> "init", period |-> 0, total |-> 0]

CostInit ==
    /\ cost_price = 0
    /\ cost_last = CostIdle

CostPeriod ==
    /\ cost_last.op = "init"
    /\ cost_last' = [CostIdle EXCEPT !.op = "reservation_period",
                                     !.period = reservation_period(obj)]
    /\ UNCHANGED cost_price

CostTotal ==
    /\ cost_last.op = "init"
    /\ cost_last' = [CostIdle EXCEPT !.op = "calculate_total_cost",
                                     !.total = calculate_total_cost(obj, cost_price)]
    /\ UNCHANGED cost_price

-----------------------------------------------------------------------------
(* Two RegularReservation.save calls; clean and Model.save are separate     *)
(* steps of each call.                                                      *)

Procs == {1, 2}

RaceIdle ==
    /\ pc = [p \in Procs |-> "idle"]
    /\ robj = [p \in Procs |-> NoRes]
    /\ interleaved = FALSE

\* super().clean() of call p
RaceClean(p) ==
    /\ pc[p] = "start"
    /\ LET e == clean(robj[p], res_store) IN
         /\ pc' = [pc EXCEPT ![p] = IF e = "" THEN "checked" ELSE "failed"]
         /\ interleaved' =
                (interleaved \/ (e = "" /\ \E q \in Procs \ {p} : pc[q] = "checked"))
    /\ UNCHANGED <<robj, res_store>>

\* super().save() of call p
RacePersist(p) ==
    /\ pc[p] = "checked"
    /\ LET r == ModelSave(robj[p], res_store) IN
         /\ robj' = [robj EXCEPT ![p] = r.obj]
         /\ res_store' = r.store
    /\ pc' = [pc EXCEPT ![p] = "done"]
    /\ UNCHANGED interleaved

-----------------------------------------------------------------------------
(* Specifications *)

Init ==
    /\ ResInit /\ CardInit /\ RoomInit /\ CostInit /\ RaceIdle

notRes  == <<cardVars, roomVars, costVars, raceVars>>
notCard == <<roomVars, resVars, costVars, raceVars>>
notRoom == <<cardVars, resVars, costVars, raceVars>>
notCost == <<cardVars, roomVars, resVars, raceVars>>
notRace == <<cardVars, roomVars, costVars, obj, res_last>>

Next ==
    \/ (\E o \in ResInputs : ResNew(o)) /\ UNCHANGED notRes
    \/ (\E row \in res_store, p \in DatePairs : ResLoad(row, p)) /\ UNCHANGED notRes
    \/ RegularSave /\ UNCHANGED notRes
    \/ SpecialSave /\ UNCHANGED notRes
    \/ (\E days \in 0..MaxDays : ExtendReservation(days)) /\ UNCHANGED notRes
    \/ ExternalPersist /\ UNCHANGED notRes

Spec == Init /\ [][Next]_vars

CardNext ==
    \/ (\E v \in CardInputs : CardAssign(v)) /\ UNCHANGED notCard
    \/ CardSave /\ UNCHANGED notCard
    \/ CardLoad /\ UNCHANGED notCard

CardSpec == Init /\ [][CardNext]_vars

RoomNext ==
    \/ (\E n \in RoomNumbers, c \in 0..MaxCapacity, g \in 0..(MaxCapacity + 1) :
           RoomNew(n, c, g)) /\ UNCHANGED notRoom
    \/ (\E r \in room_store, c \in 0..MaxCapacity, g \in 0..(MaxCapacity + 1) :
           RoomLoad(r, c, g)) /\ UNCHANGED notRoom
    \/ RoomSave /\ UNCHANGED notRoom

RoomSpec == Init /\ [][RoomNext]_vars

CostSpecInit ==
    /\ CardInit /\ RoomInit /\ RaceIdle
    /\ res_store = {}
    /\ res_last = ResIdle
    /\ obj \in [kind : Classes, pk : {0}, room : RoomIds, start : Dates, end : Dates]
    /\ cost_price \in Prices
    /\ cost_last = CostIdle

CostNext ==
    \/ CostPeriod /\ UNCHANGED notCost
    \/ CostTotal /\ UNCHANGED notCost

CostSpec == CostSpecInit /\ [][CostNext]_vars

RaceSpecInit ==
    /\ CardInit /\ RoomInit /\ CostInit
    /\ obj = NoRes
    /\ res_store = {}
    /\ res_last = ResIdle
    /\ pc = [p \in Procs |-> "start"]
    /\ robj \in [Procs -> [kind : {"RegularReservation"}, pk : {0},
                           room : RoomIds, start : Dates, end : Dates]]
    /\ interleaved = FALSE

RaceNext ==
    \/ (\E p \in Procs : RaceClean(p)) /\ UNCHANGED notRace
    \/ (\E p \in Procs : RacePersist(p)) /\ UNCHANGED notRace

RaceSpec == RaceSpecInit /\ [][RaceNext]_vars

-----------------------------------------------------------------------------
(* Properties *)

SaveOps == {"RegularReservation.save", "SpecialReservation.save"}

\* The overlap rule: existing.end >= new.start and existing.start <= new.end
Conflicts(existing, new) ==
    /\ existing.room = new.room
    /\ existing.end >= new.start
    /\ existing.start <= new.end

\* C1 as stated: a save of a new reservation with start < end succeeds
\* exactly when no existing reservation on its room, of either kind,
\* conflicts with it.
C1_AnyKind ==
    (/\ res_last.op \in SaveOps
     /\ res_last.pre_obj.pk = 0
     /\ res_last.pre_obj.start < res_last.pre_obj.end)
    => (res_last.error = ""
         <=> \A r \in res_last.pre_store : ~Conflicts(r, res_last.pre_obj))

\* C1 amended: a save of a reservation with start < end raises no error
\* exactly when no stored reservation of the same kind on its room conflicts
\* with it, and raises the room error otherwise; a regular reservation that
\* passes is in the store afterwards with its room and dates.
C1_SameKind ==
    (/\ res_last.op \in SaveOps
     /\ res_last.pre_obj.start < res_last.pre_obj.end)
    => LET o == res_last.pre_obj
           free == \A r \in res_last.pre_store : r.kind = o.kind => ~Conflicts(r, o)
       IN /\ res_last.error = "" <=> free
          /\ res_last.error # "" => res_last.error = UnavailableError
          /\ (res_last.error = "" /\ o.kind = "RegularReservation")
                => \E r \in res_store :
                      /\ r.kind = o.kind /\ r.room = o.room
                      /\ r.start = o.start /\ r.end = o.end

\* A second regular reservation on the room of a stored one, its range
\* overlapping, has been refused
C1_Witness ==
    /\ res_last.op = "RegularReservation.save"
    /\ res_last.pre_obj.pk = 0
    /\ res_last.pre_obj.start < res_last.pre_obj.end
    /\ res_last.error = UnavailableError
    /\ \E r \in res_last.pre_store :
          r.kind = "RegularReservation" /\ Conflicts(r, res_last.pre_obj)

\* C2 as stated: for start < end, calculate_total_cost is reservation_period()
\* times the nightly price, rounded to one decimal place.
C2_CostIsPeriodTimesPrice ==
    (/\ cost_last.op = "calculate_total_cost"
     /\ obj.start < obj.end)
    => cost_last.total = RoundTenths((obj.end - obj.start) * cost_price)

IsMasked(v) ==
    /\ v.type = "str"
    /\ Len(v.chars) = 19
    /\ SubSeq(v.chars, 1, 15) = MaskPrefix
    /\ \A i \in 16..19 : v.chars[i] \in DigitChars

\* C3 as stated: normalising a value that is already masked returns it
\* unchanged and raises nothing.
C3_MaskIdempotent ==
    (card_last.op = "save" /\ IsMasked(card_last.arg))
    => (card_last.error = "" /\ card_last.value = card_last.arg)

\* C4 as stated: extend(days), days > 0, on a stored special reservation whose query
\* over [start, end + days] finds a row adds days to the end date, writes the
\* reservation and returns; when the query finds none it raises the extension
\* error.
C4_ExtendMutatesAndPersists ==
    (/\ res_last.op = "extend_reservation"
     /\ res_last.days > 0
     /\ res_last.pre_obj \in res_last.pre_store)
    => LET o == res_last.pre_obj
           found == {r \in res_last.pre_store :
                       /\ r.kind = "SpecialReservation"
                       /\ r.room = o.room
                       /\ r.end >= o.start
                       /\ r.start <= o.end + res_last.days}
       IN IF found # {}
          THEN /\ res_last.error = ""
               /\ obj = [o EXCEPT !.end = o.end + res_last.days]
               /\ obj \in res_store
          ELSE res_last.error = ExtendError

\* C5: SpecialReservation.save leaves the record store as it was, whether
\* clean passed or raised.
C5_SpecialSaveWritesNothing ==
    res_last.op = "SpecialReservation.save" => res_store = res_last.pre_store

\* A new special reservation passed clean in its save
C5_Witness ==
    /\ res_last.op = "SpecialReservation.save"
    /\ res_last.error = ""
    /\ res_last.pre_obj.pk = 0

\* C6: when a save or an extend raises, a validation error or any other, the
\* record store and the object (its dates included) are what they were before
\* the call.
C6_FailureChangesNothing ==
    (/\ res_last.op \in SaveOps \cup {"extend_reservation"}
     /\ res_last.error # "")
    => (res_store = res_last.pre_store /\ obj = res_last.pre_obj)

\* A save raised the room validation error with rows in the store
C6_Witness ==
    /\ res_last.op \in SaveOps
    /\ res_last.error \in ValidationErrors
    /\ res_last.pre_store # {}

\* A string of digits, one at least
AllDigits(chars) ==
    Len(chars) > 0 /\ \A i \in 1..Len(chars) : chars[i] \in DigitChars

\* C7 as stated: the field returns the mask and the last four characters
\* exactly for a string of 16 digits; any other input raises and stores
\* nothing, the error being: not a string, else not made of digits (the empty
\* string counted here), else the length.
C7_MaskExactlySixteenDigits ==
    card_last.op = "save" =>
      LET v == card_last.arg IN
      /\ card_last.error = ""
            <=> (v.type = "str" /\ Len(v.chars) = CardLen /\ AllDigits(v.chars))
      /\ card_last.error = ""
            => card_last.value = Str(MaskPrefix \o SubSeq(v.chars, CardLen - 3, CardLen))
      /\ card_last.error # "" => card_db = card_last.db_before
      /\ v.type # "str" => card_last.error = "The card number must be a string"
      /\ (v.type = "str" /\ ~AllDigits(v.chars))
            => card_last.error = "The card number must contain only digits"
      /\ (v.type = "str" /\ AllDigits(v.chars) /\ Len(v.chars) # CardLen)
            => card_last.error = "The card number must be exactly 16 characters long"

\* C8: Room.save raises the validation error exactly when total_guests >
\* capacity; the table changes only when save succeeds; every stored room has
\* total_guests <= capacity; the message of a successful save holds the room
\* number.
C8_RoomSave ==
    /\ \A r \in room_store : r.total_guests <= r.capacity
    /\ room_last.op = "save" =>
         LET o == room_last.pre_obj IN
         /\ room_last.error = "Total guests are more than the capacity of the room"
               <=> o.total_guests > o.capacity
         /\ room_last.error # "" => room_store = room_last.pre_store
         /\ room_last.error = ""
               => /\ \E i \in 1..Len(room_last.message) : room_last.message[i] = o.number
                  /\ \E r \in room_store :
                        /\ r.number = o.number
                        /\ r.capacity = o.capacity
                        /\ r.total_guests = o.total_guests

\* A room with total_guests = capacity > 0 has been saved
C8_Witness ==
    /\ room_last.op = "save"
    /\ room_last.error = ""
    /\ room_last.pre_obj.total_guests = room_last.pre_obj.capacity
    /\ room_last.pre_obj.capacity > 0

\* Two rows of the regular table on one room with overlapping ranges
DoubleBooked ==
    \E a \in res_store, b \in res_store :
        /\ a # b
        /\ a.kind = "RegularReservation" /\ b.kind = "RegularReservation"
        /\ Conflicts(a, b)

\* C9: when both cleans ran before either persist, both reservations end up
\* stored, and the room is double booked if their ranges overlap on one room;
\* when no clean ran between another call's clean and persist, the store is
\* never double booked.
C9_CheckThenActRace ==
    /\ (interleaved /\ \A p \in Procs : pc[p] = "done")
          => /\ \A p \in Procs : robj[p] \in res_store
             /\ Conflicts(robj[1], robj[2]) => DoubleBooked
    /\ ~interleaved => ~DoubleBooked

\* Both interleaved saves are done and the room is double booked
C9_Witness ==
    /\ interleaved
    /\ \A p \in Procs : pc[p] = "done"
    /\ Conflicts(robj[1], robj[2])
    /\ DoubleBooked

\* The stored row of the reservation the last save was called on
OwnRow(o, store) == {r \in store : r.kind = o.kind /\ r.pk = o.pk}

\* C10 as stated: a save of a stored regular reservation whose dates are
\* unchanged, or changed to a range start..end (start <= end) that still
\* overlaps the stored one, raises the room error.
C10_ResaveUnavailable ==
    (/\ res_last.op = "RegularReservation.save"
     /\ res_last.pre_obj.start <= res_last.pre_obj.end
     /\ \E r \in OwnRow(res_last.pre_obj, res_last.pre_store) :
           Conflicts(r, res_last.pre_obj))
    => res_last.error = UnavailableError

\* C10 amended: as above for ranges with start < end; the save then raises
\* the room error and the store keeps the reservation as it was.
C10_ResaveValidRangeUnavailable ==
    (/\ res_last.op = "RegularReservation.save"
     /\ res_last.pre_obj.start < res_last.pre_obj.end
     /\ \E r \in OwnRow(res_last.pre_obj, res_last.pre_store) :
           Conflicts(r, res_last.pre_obj))
    => (res_last.error = UnavailableError /\ res_store = res_last.pre_store)

\* A stored regular reservation, alone on its room, was saved again with
\* changed dates that overlap the stored ones, and was refused
C10_Witness ==
    /\ res_last.op = "RegularReservation.save"
    /\ res_last.error = UnavailableError
    /\ \E r \in OwnRow(res_last.pre_obj, res_last.pre_store) :
          /\ Conflicts(r, res_last.pre_obj)
          /\ r.start # res_last.pre_obj.start
          /\ \A x \in res_last.pre_store \ {r} : ~Conflicts(x, res_last.pre_obj)

====
